---- MODULE Spec2Model ----
(***************************************************************************)
(* Live Scribe: audio capture -> windowed transcription -> periodic        *)
(* summarization, with its two front ends (the interactive script          *)
(* scribe.py, rerun per browser session, and the terminal loop             *)
(* scribe_cli.py).                                                         *)
(*                                                                         *)
(* Text is modelled as a sequence of one-character strings, so that        *)
(* strip, format, split and join are computed character by character.      *)
(* Audio is a sequence of sample identifiers 1, 2, 3, ... in capture order.*)
(***************************************************************************)
EXTENDS Integers, Sequences, FiniteSets, TLC

\* ------------------------------------------------------------------ bounds
\* One model sample stands for one second of device audio.
SAMPLE_RATE == 1
\* Window length in seconds (7 in scribe.py, 5 in scribe_cli.py), scaled down.
CHUNK_DURATION == 2
\* Lines per summary (25 in scribe.py, 15 in scribe_cli.py), scaled down.
SUMMARY_INTERVAL == 2
\* Total number of samples the device delivers.
MaxSamples == 6
\* Total number of clicks on the start/stop button (interactive front end).
MaxToggles == 3
\* The same two limits where two browser sessions share the cached queues.
SharedSamples == 4
SharedToggles == 2
\* The two limits for meetings long enough for several summaries.
LongSamples == 8
LongToggles == 1
\* For the runs under fair scheduling: the number of full windows the
\* device delivers, and the limit on clicks.
LiveWindows == 2
LiveToggles == 1
\* Longest transcript file given to the batch tool.
MaxFileLines == 5
\* Longest enumerated device list, and the two limits where the device list
\* and the user's selection vary.
MaxDevices == 2
DeviceSamples == 4
DeviceToggles == 3

\* Frames per callback buffer.
FrameCounts == {1, 2}
\* Browser sessions of the interactive front end; the terminal front end is
\* the single "session" 1.
Sessions == {1, 2}

\* ------------------------------------------------------------------ text
hello == <<"h", "e", "l", "l", "o">>
\* "]** " : the separator that ends the timestamp prefix
Sep == <<"]", "*", "*", " ">>
\* What the transcription service may return for a window.
Texts ==
    { <<>>,
      <<" ">>,
      <<" ">> \o hello \o <<" ">>,
      <<"a">> \o Sep \o <<"b">> }

Whitespace == {" ", "\n", "\t"}

RECURSIVE LStrip(_)
LStrip(s) ==
    IF s # <<>> /\ Head(s) \in Whitespace THEN LStrip(Tail(s)) ELSE s

RECURSIVE RStrip(_)
RStrip(s) ==
    IF s # <<>> /\ s[Len(s)] \in Whitespace
    THEN RStrip(SubSeq(s, 1, Len(s) - 1))
    ELSE s

\* str.strip()
Strip(s) == RStrip(LStrip(s))

Digit(n) == <<"0", "1", "2", "3", "4", "5", "6", "7", "8", "9">>[n + 1]
Pad2(n) == <<Digit((n \div 10) % 10), Digit(n % 10)>>

\* strftime("%H:%M:%S") of a clock reading in seconds
TimeHMS(t) ==
    Pad2((t \div 3600) % 24) \o <<":">> \o Pad2((t \div 60) % 60)
        \o <<":">> \o Pad2(t % 60)

\* strftime("%H:%M")
TimeHM(t) == Pad2((t \div 3600) % 24) \o <<":">> \o Pad2((t \div 60) % 60)

\* f"**[{timestamp}]** {text}"
Formatted(timestamp, text) ==
    <<"*", "*", "[">> \o timestamp \o Sep \o text

IsPrefix(p, s) == Len(p) <= Len(s) /\ SubSeq(s, 1, Len(p)) = p

Drop(s, n) == SubSeq(s, n + 1, Len(s))

\* line.split(sep)[-1] : what follows the last occurrence of sep, the whole
\* line when sep does not occur.
RECURSIVE SplitLast(_, _)
SplitLast(line, sep) ==
    LET starts == {i \in 1..Len(line) : IsPrefix(sep, Drop(line, i - 1))}
    IN  IF starts = {} THEN line
        ELSE LET first == CHOOSE i \in starts : \A j \in starts : i <= j
             IN  SplitLast(Drop(line, first - 1 + Len(sep)), sep)

\* sep.join(parts)
RECURSIVE Join(_, _)
Join(parts, sep) ==
    IF parts = <<>> THEN <<>>
    ELSE IF Len(parts) = 1 THEN parts[1]
    ELSE parts[1] \o sep \o Join(Tail(parts), sep)

\* np.concatenate / list.extend over a list of sample sequences
RECURSIVE Concat(_)
Concat(ss) == IF ss = <<>> THEN <<>> ELSE Head(ss) \o Concat(Tail(ss))

Map1(s) == [i \in 1..Len(s) |-> s[i][1]]
Map2(s) == [i \in 1..Len(s) |-> s[i][2]]

\* ------------------------------------------------------------------ devices
\* "BlackHole" : the marker of the loopback device
Marker == <<"B", "l", "a", "c", "k", "H", "o", "l", "e">>
Mic == <<"M", "i", "c">>
BlackHole2ch == Marker \o <<" ", "2", "c", "h">>
DeviceNames == {Mic, BlackHole2ch}

\* `marker in name`
Contains(name, marker) ==
    \E i \in 0..(Len(name) - Len(marker)) :
        SubSeq(name, i + 1, i + Len(marker)) = marker

\* sd.query_devices(): every device carries its position as 'index'.
query_devices(kinds) ==
    [i \in 1..Len(kinds) |->
        [name |-> kinds[i][1], max_input_channels |-> kinds[i][2],
         index |-> i - 1]]

IsInput(d) == d.max_input_channels > 0

\* [d for d in device_list if d['max_input_channels'] > 0]
InputDevices(device_list) == SelectSeq(device_list, IsInput)

\* [d['name'] for d in device_list if d['max_input_channels'] > 0]
InputNames(device_list) ==
    LET ds == InputDevices(device_list) IN [i \in 1..Len(ds) |-> ds[i].name]

\* Faulty variant: the loop without its break keeps the last marked name.
LastMarked(names, none) ==
    LET marked == {i \in 1..Len(names) : Contains(names[i], Marker)}
    IN  IF marked = {} THEN none
        ELSE (CHOOSE i \in marked : \A j \in marked : i >= j) - 1

\* The loop over enumerate(...) with its break: the position (from 0) of the
\* first name that contains the marker, `none` when there is no such name.
FirstMarked(names, none) ==
    LET marked == {i \in 1..Len(names) : Contains(names[i], Marker)}
    IN  IF marked = {} THEN none
        ELSE (CHOOSE i \in marked : \A j \in marked : i <= j) - 1

RECURSIVE SeqsUpTo(_, _)
SeqsUpTo(S, n) ==
    IF n = 0 THEN {<<>>}
    ELSE LET shorter == SeqsUpTo(S, n - 1)
         IN  shorter \cup {Append(q, x) : q \in shorter, x \in S}

\* The device lists sd.query_devices() may return: any names, with or
\* without input channels.
DeviceLists ==
    {query_devices(kinds) :
         kinds \in SeqsUpTo(DeviceNames \X {0, 1}, MaxDevices)}

\* What the user did with the selection: nothing, or picked position `pos`
\* (scribe.py: an option of the select box; scribe_cli.py: a typed number).
Untouched == [made |-> FALSE, pos |-> 0]
Picked(pos) == [made |-> TRUE, pos |-> pos]

\* The device argument of sd.InputStream: a device index, or the host's
\* default input device (sd.default.device['input']).
NoDevice == [kind |-> "none", index |-> 0]
DeviceId(i) == [kind |-> "index", index |-> i]
HostDefault == [kind |-> "host_default", index |-> 0]

\* None, as returned by a select box without options (device names are
\* not empty).
None == <<>>

\* scribe.py: default_idx, then st.selectbox(..., index=default_idx).
selected_device(input_names, choice) ==
    LET default_idx == FirstMarked(input_names, 0)
    IN  IF input_names = <<>> THEN None
        ELSE IF choice.made THEN input_names[choice.pos + 1]
        ELSE input_names[default_idx + 1]

\* scribe.py: input_names.index(selected_device) raises when the name is
\* not an input name (NoDevice stands for the exception); real_id is the
\* index of the first device of the whole list that has the name.
real_id(device_list, selected) ==
    LET named == {i \in 1..Len(device_list) : device_list[i].name = selected}
    IN  IF \A i \in 1..Len(InputNames(device_list)) :
               InputNames(device_list)[i] # selected
        THEN NoDevice
        ELSE DeviceId(device_list[CHOOSE i \in named :
                                      \A j \in named : i <= j].index)

\* scribe_cli.py select_input_device: NoDevice stands for sys.exit(1); an
\* empty answer takes default_idx (0 when no name is marked); a number out
\* of range falls back to the host's default input device.
select_input_device(device_list, choice) ==
    LET input_devices == InputDevices(device_list)
        default_idx == FirstMarked(InputNames(device_list), -1)
        dev_idx == IF ~choice.made /\ default_idx # -1 THEN default_idx
                   ELSE IF choice.made THEN choice.pos
                   ELSE IF default_idx # -1 THEN default_idx ELSE 0
    IN  IF input_devices = <<>> THEN NoDevice
        ELSE IF dev_idx + 1 \in 1..Len(input_devices)
        THEN DeviceId(input_devices[dev_idx + 1].index)
        ELSE HostDefault

\* Whether sd.InputStream can open `id` for input at all: an index of a
\* device without input channels cannot.
CanOpen(device_list, id) ==
    /\ id.kind # "none"
    /\ id.kind = "index" => IsInput(device_list[id.index + 1])

\* ------------------------------------------------------------------ state
VARIABLES
    frontend,          \* "ui" (scribe.py) or "cli" (scribe_cli.py)
    env,               \* the run's surroundings: browser sessions that connect,
                       \* samples the device delivers, clicks the user makes
    audio_q,           \* queue of callback buffers
    result_q,          \* queue of (formatted line, window) pairs
    pcT,               \* per batching loop: "none", "collect", "transcribing"
    audio_chunk,       \* per batching loop: the window being accumulated
    outcome,           \* per batching loop: what its last transcription call did
    captured,          \* number of samples delivered by the device so far
    windows,           \* windows submitted to transcription, in call order
    pending_at_stop,   \* samples queued or in a partial window at some stop
    initialised,       \* per session: session state set up (cli: main entered)
    thread_started,    \* per session: the thread_started key of session state
    recording,         \* per session: the recording flag
    stream,            \* per session: "none", "open" or "closed"
    transcript_text,   \* per session: the transcript log
    audio_buffer,      \* per session: the windows of the logged lines
    summary_log,       \* per session: the summary entries
    last_summary_idx,  \* per session: the summarization boundary
    pcS,               \* per session: where its presentation loop stands
    call,              \* per session: the summarization call in progress
    toggles,           \* clicks on the start/stop button so far
    notice,            \* per session: the message its last script run rendered
    transcript_file,   \* meeting_transcript.txt
    audio_file,        \* meeting_audio.wav
    device,            \* per session: the device of its latest sd.InputStream call
    spans,             \* per session: the log spans (from, to) submitted to
                       \* summarization calls, in call order
    batch,             \* the run of the batch tool summary_tester.py
    open_streams       \* per session: device streams started and not closed

worker_vars == <<audio_q, result_q, pcT, audio_chunk, outcome, captured,
                 windows, pending_at_stop>>
session_vars == <<initialised, thread_started, recording, stream, transcript_text,
                  audio_buffer, summary_log, last_summary_idx, pcS, call,
                  toggles, notice>>
file_vars == <<transcript_file, audio_file>>
vars == <<frontend, env, worker_vars, session_vars, file_vars, device, spans,
          batch, open_streams>>

Absent == [exists |-> FALSE, data |-> <<>>]
File(data) == [exists |-> TRUE, data |-> data]
\* A transcript file left by an earlier meeting.
OldTranscript == File(<<"o", "l", "d">>)

NoOutcome == [kind |-> "none", text |-> <<>>]
Returned(raw) == [kind |-> "returned", text |-> raw]
Raised == [kind |-> "raised", text |-> <<>>]

\* The batch tool has not been run.
NoBatch ==
    [pc |-> "none", exists |-> FALSE, lines |-> <<>>, clean_lines |-> <<>>,
     i |-> 0, chunks |-> <<>>]

\* A machine whose only device is a microphone.
OneMic == query_devices(<< <<Mic, 1>> >>)

NoCall == [click |-> "none", current_len |-> 0, clean_text |-> <<>>]

\* The clock read by datetime.now(): model time advances by one second with
\* every transcription call.
Now == Len(windows)

\* The process is alive (the daemon batching loop dies with the terminal
\* front end's process).
Alive == frontend = "ui" \/ pcS[1] \notin {"exited", "aborted", "crashed"}

Start ==
    /\ audio_q = <<>>
    /\ result_q = <<>>
    /\ pcT = [t \in Sessions |-> "none"]
    /\ audio_chunk = [t \in Sessions |-> <<>>]
    /\ outcome = [t \in Sessions |-> NoOutcome]
    /\ captured = 0
    /\ windows = <<>>
    /\ pending_at_stop = {}
    /\ initialised = [s \in Sessions |-> FALSE]
    /\ thread_started = [s \in Sessions |-> FALSE]
    /\ recording = [s \in Sessions |-> FALSE]
    /\ stream = [s \in Sessions |-> "none"]
    /\ transcript_text = [s \in Sessions |-> <<>>]
    /\ audio_buffer = [s \in Sessions |-> <<>>]
    /\ summary_log = [s \in Sessions |-> <<>>]
    /\ last_summary_idx = [s \in Sessions |-> 0]
    /\ pcS = [s \in Sessions |-> "idle"]
    /\ call = [s \in Sessions |-> NoCall]
    /\ toggles = 0
    /\ notice = [s \in Sessions |-> "none"]
    /\ transcript_file = env.previous_file
    /\ audio_file = Absent
    /\ device = [s \in Sessions |-> NoDevice]
    /\ spans = [s \in Sessions |-> <<>>]
    /\ open_streams = [s \in Sessions |-> 0]

\* Either front end, driven by one user (one browser session).
Init ==
    /\ frontend \in {"ui", "cli"}
    /\ env \in [sessions : {{1}}, samples : {MaxSamples},
               toggles : {MaxToggles},
               previous_file : {Absent, OldTranscript},
               device_list : {OneMic}, choice : {Untouched}]
    /\ batch = NoBatch
    /\ Start

\* The interactive front end with two browser sessions on one server.
InitShared ==
    /\ frontend = "ui"
    /\ env = [sessions |-> Sessions, samples |-> SharedSamples,
              toggles |-> SharedToggles, previous_file |-> Absent,
              device_list |-> OneMic, choice |-> Untouched]
    /\ batch = NoBatch
    /\ Start

\* Either front end in a longer meeting that is started once.
InitLong ==
    /\ frontend \in {"ui", "cli"}
    /\ env = [sessions |-> {1}, samples |-> LongSamples,
              toggles |-> LongToggles, previous_file |-> Absent,
              device_list |-> OneMic, choice |-> Untouched]
    /\ batch = NoBatch
    /\ Start

\* Either front end, for the runs under fair scheduling.
InitLive ==
    /\ frontend \in {"ui", "cli"}
    /\ env = [sessions |-> {1}, samples |-> LiveWindows * SAMPLE_RATE * CHUNK_DURATION,
              toggles |-> LiveToggles, previous_file |-> Absent,
              device_list |-> OneMic, choice |-> Untouched]
    /\ batch = NoBatch
    /\ Start

\* Either front end on any machine, with any use of the device selection
\* the front end allows: a select box offers the input names only, a
\* prompt accepts any number.
InitDevices ==
    /\ frontend \in {"ui", "cli"}
    /\ env \in [sessions : {{1}}, samples : {DeviceSamples},
               toggles : {DeviceToggles}, previous_file : {Absent},
               device_list : DeviceLists,
               choice : {Untouched} \cup {Picked(k) : k \in 0..(MaxDevices - 1)}]
    /\ (frontend = "ui" /\ env.choice.made) =>
           env.choice.pos < Len(InputNames(env.device_list))
    /\ batch = NoBatch
    /\ Start

\* ------------------------------------------------------------------ capture
\* audio_callback: the driver hands over a buffer of `frames` samples while
\* some stream is open; a copy is enqueued.
audio_callback(frames) ==
    /\ Alive
    /\ \E s \in Sessions : stream[s] = "open"
    /\ captured + frames <= env.samples
    /\ audio_q' = Append(audio_q, [i \in 1..frames |-> captured + i])
    /\ captured' = captured + frames
    /\ UNCHANGED <<frontend, env, batch, open_streams, device, spans,
                   result_q, pcT, audio_chunk, outcome, windows,
                   pending_at_stop, session_vars, file_vars>>

\* ------------------------------------------------------------------ batching loop
\* Faulty variant: a partial window is flushed once no stream is open.
WindowFullOrStopped(chunk) ==
    \/ Len(chunk) >= SAMPLE_RATE * CHUNK_DURATION
    \/ chunk # <<>> /\ \A s \in Sessions : stream[s] # "open"

\* The inner while condition of processing_thread, negated.
WindowFull(chunk) == Len(chunk) >= SAMPLE_RATE * CHUNK_DURATION

\* Faulty variant: the buffer replaces the partial window instead of extending it.
CollectFresh(t) ==
    /\ Alive
    /\ pcT[t] = "collect"
    /\ ~WindowFull(audio_chunk[t])
    /\ audio_q # <<>>
    /\ audio_chunk' = [audio_chunk EXCEPT ![t] = Head(audio_q)]
    /\ audio_q' = Tail(audio_q)
    /\ UNCHANGED <<frontend, env, batch, open_streams, device, spans,
                   result_q, pcT, outcome, captured, windows,
                   pending_at_stop, session_vars, file_vars>>

\* Faulty variant: the window is cut at its nominal size.
CollectTruncate(t) ==
    /\ Alive
    /\ pcT[t] = "collect"
    /\ ~WindowFull(audio_chunk[t])
    /\ audio_q # <<>>
    /\ audio_chunk' =
           [audio_chunk EXCEPT
                ![t] = SubSeq(@ \o Head(audio_q), 1,
                              IF Len(@ \o Head(audio_q))
                                     <= SAMPLE_RATE * CHUNK_DURATION
                              THEN Len(@ \o Head(audio_q))
                              ELSE SAMPLE_RATE * CHUNK_DURATION)]
    /\ audio_q' = Tail(audio_q)
    /\ UNCHANGED <<frontend, env, batch, open_streams, device, spans,
                   result_q, pcT, outcome, captured, windows,
                   pending_at_stop, session_vars, file_vars>>

\* Inner loop body with a non-empty queue: get one buffer, extend the window.
\* (With an empty queue the loop sleeps and polls again: no state change.)
Collect(t) ==
    /\ Alive
    /\ pcT[t] = "collect"
    /\ ~WindowFull(audio_chunk[t])
    /\ audio_q # <<>>
    /\ audio_chunk' = [audio_chunk EXCEPT ![t] = @ \o Head(audio_q)]
    /\ audio_q' = Tail(audio_q)
    /\ UNCHANGED <<frontend, env, batch, open_streams, device, spans,
                   result_q, pcT, outcome, captured, windows,
                   pending_at_stop, session_vars, file_vars>>

\* The window is full: np_audio is built and mlx_whisper.transcribe is called.
\* The call has no timeout: a call that never returns leaves the loop here.
Transcribe(t) ==
    /\ Alive
    /\ pcT[t] = "collect"
    /\ WindowFull(audio_chunk[t])
    /\ pcT' = [pcT EXCEPT ![t] = "transcribing"]
    /\ windows' = Append(windows, audio_chunk[t])
    /\ UNCHANGED <<frontend, env, batch, open_streams, device, spans,
                   audio_q, result_q, audio_chunk, outcome, captured,
                   pending_at_stop, session_vars, file_vars>>

\* Faulty variant: the emptiness test is made on the text as returned.
EnqueuedUnstripped(raw, np_audio) ==
    IF raw # <<>>
    THEN << <<Formatted(TimeHMS(Now), Strip(raw)), np_audio>> >>
    ELSE <<>>

\* What a returned text puts on the results queue: `if text:` on the
\* stripped text, then the formatted line with the window.
Enqueued(raw, np_audio) ==
    LET text == Strip(raw)
    IN  IF text # <<>>
        THEN << <<Formatted(TimeHMS(Now), text), np_audio>> >>
        ELSE <<>>

\* The call returns `raw`; the next iteration starts with an empty window.
TranscribeReturn(t, raw) ==
    /\ Alive
    /\ pcT[t] = "transcribing"
    /\ result_q' = result_q \o Enqueued(raw, audio_chunk[t])
    /\ outcome' = [outcome EXCEPT ![t] = Returned(raw)]
    /\ audio_chunk' = [audio_chunk EXCEPT ![t] = <<>>]
    /\ pcT' = [pcT EXCEPT ![t] = "collect"]
    /\ UNCHANGED <<frontend, env, batch, open_streams, device, spans,
                   audio_q, captured, windows, pending_at_stop,
                   session_vars, file_vars>>

\* Faulty variant: the window is kept after a failed call and submitted again.
TranscribeRaiseRetry(t) ==
    /\ Alive
    /\ pcT[t] = "transcribing"
    /\ outcome' = [outcome EXCEPT ![t] = Raised]
    /\ pcT' = [pcT EXCEPT ![t] = "collect"]
    /\ UNCHANGED <<frontend, env, batch, open_streams, device, spans,
                   audio_q, result_q, audio_chunk, captured,
                   windows, pending_at_stop, session_vars, file_vars>>

\* Faulty variant: the exception is not caught and ends the thread.
TranscribeRaiseExits(t) ==
    /\ Alive
    /\ pcT[t] = "transcribing"
    /\ outcome' = [outcome EXCEPT ![t] = Raised]
    /\ audio_chunk' = [audio_chunk EXCEPT ![t] = <<>>]
    /\ pcT' = [pcT EXCEPT ![t] = "none"]
    /\ UNCHANGED <<frontend, env, batch, open_streams, device, spans,
                   audio_q, result_q, captured, windows,
                   pending_at_stop, session_vars, file_vars>>

\* The call raises: the except branch prints, the next iteration starts with
\* an empty window.
TranscribeRaise(t) ==
    /\ Alive
    /\ pcT[t] = "transcribing"
    /\ outcome' = [outcome EXCEPT ![t] = Raised]
    /\ audio_chunk' = [audio_chunk EXCEPT ![t] = <<>>]
    /\ pcT' = [pcT EXCEPT ![t] = "collect"]
    /\ UNCHANGED <<frontend, env, batch, open_streams, device, spans,
                   audio_q, result_q, captured, windows,
                   pending_at_stop, session_vars, file_vars>>

\* ------------------------------------------------------------------ presentation
Range(f) == {f[i] : i \in DOMAIN f}

\* Samples captured but not yet in a full window: queued buffers and the
\* partial windows of the batching loops.
PendingSamples ==
    Range(Concat(audio_q))
        \cup UNION {Range(audio_chunk[t]) :
                      t \in {u \in Sessions : pcT[u] = "collect"
                                               /\ ~WindowFull(audio_chunk[u])}}

\* Faulty variant: the windows of one drain are stored newest first.
DrainAudioNewestFirst(buf, q) ==
    buf \o [i \in 1..Len(q) |-> q[Len(q) + 1 - i][2]]

\* while not result_q.empty(): get, append the line, append the window.
DrainLines(log, q) == log \o Map1(q)
DrainAudio(buf, q) == buf \o Map2(q)

Drain(s) ==
    /\ transcript_text' =
           [transcript_text EXCEPT ![s] = DrainLines(@, result_q)]
    /\ audio_buffer' = [audio_buffer EXCEPT ![s] = DrainAudio(@, result_q)]
    /\ result_q' = <<>>

\* Faulty variant: a summary is due as soon as one line is past the boundary.
SummaryDueEager(current_len, idx) == current_len - idx >= 1

\* current_len - last_summary_idx >= SUMMARY_INTERVAL
SummaryDue(current_len, idx) == current_len - idx >= SUMMARY_INTERVAL

\* " ".join([line.split("]** ")[-1] for line in recent_lines])
CleanText(recent_lines) ==
    Join([i \in 1..Len(recent_lines) |-> SplitLast(recent_lines[i], Sep)],
         <<" ">>)

\* Faulty variant: current_len taken before the drain of this tick.
SummaryCallStale(log, idx, click) ==
    [click |-> click,
     current_len |-> Len(log) - Len(result_q),
     clean_text |-> CleanText(Drop(log, idx))]

\* The summarization check after the drain: the call it issues, if any.
SummaryCall(log, idx, click) ==
    [click |-> click,
     current_len |-> Len(log),
     clean_text |-> CleanText(Drop(log, idx))]

\* What the summarization service may do with a call.
Responses ==
    { [raised |-> FALSE, text |-> "Mood: calm"],
      [raised |-> TRUE, text |-> "connection refused"] }

\* generate_summary: the content, or the error string of the except branch.
generate_summary(resp) ==
    IF resp.raised
    THEN [error |-> TRUE, text |-> resp.text]
    ELSE [error |-> FALSE, text |-> resp.text]

\* Faulty variant: the boundary stays where it is when the service failed.
RecordSummaryRetry(s, resp) ==
    /\ summary_log' =
           [summary_log EXCEPT
                ![s] = Append(@, [time |-> TimeHM(Now),
                                  summary |-> generate_summary(resp)])]
    /\ last_summary_idx' =
           [last_summary_idx EXCEPT
                ![s] = IF resp.raised THEN @ ELSE call[s].current_len]

\* summary_log += heading and summary; last_summary_idx = current_len
RecordSummary(s, resp) ==
    /\ summary_log' =
           [summary_log EXCEPT
                ![s] = Append(@, [time |-> TimeHM(Now),
                                  summary |-> generate_summary(resp)])]
    /\ last_summary_idx' =
           [last_summary_idx EXCEPT ![s] = call[s].current_len]

\* The text written to meeting_transcript.txt
TranscriptData(lines) == Join(lines, <<"\n">>)

\* Faulty variant: the write is skipped for an empty log.
SaveTranscriptGuarded(old, lines) ==
    IF lines # <<>> THEN File(TranscriptData(lines)) ELSE old

\* scribe.py: the text file is opened for writing unconditionally.
SaveTranscriptUI(old, lines) == File(TranscriptData(lines))
\* scribe_cli.py: `if transcript_text:` guards the write.
SaveTranscriptCLI(old, lines) ==
    IF lines # <<>> THEN File(TranscriptData(lines)) ELSE old
\* Both: `if audio_buffer:` guards the wave file.
SaveAudio(old, buf) == IF buf # <<>> THEN File(Concat(buf)) ELSE old

\* ---- scribe.py controls, run at the end of a script run
\* The start/stop button: the flag is flipped, then the stream is started
\* (ok: InputStream and start() succeed) or stopped and closed.
\* Faulty variant: the flag is not reset when the start fails.
ToggleKeepsFlag(s, ok) ==
    LET id == real_id(env.device_list,
                      selected_device(InputNames(env.device_list), env.choice))
        started == ok /\ CanOpen(env.device_list, id)
    IN  IF recording[s]
        THEN /\ recording' = [recording EXCEPT ![s] = FALSE]
             /\ stream' = [stream EXCEPT
                               ![s] = IF @ = "none" THEN @ ELSE "closed"]
             /\ pending_at_stop' = pending_at_stop \cup PendingSamples
             /\ notice' = [notice EXCEPT ![s] = "none"]
             /\ open_streams' =
                    [open_streams EXCEPT
                         ![s] = IF stream[s] = "none" THEN @ ELSE @ - 1]
             /\ UNCHANGED device
        ELSE /\ recording' = [recording EXCEPT ![s] = TRUE]
             /\ stream' = [stream EXCEPT ![s] = IF started THEN "open" ELSE @]
             /\ open_streams' =
                    [open_streams EXCEPT ![s] = IF started THEN @ + 1 ELSE @]
             /\ notice' = [notice EXCEPT
                               ![s] = IF started THEN "listening" ELSE "error"]
             /\ device' = [device EXCEPT ![s] = id]
             /\ UNCHANGED pending_at_stop

\* Faulty variant: the stream is started without looking the device up.
ToggleIgnoresLookup(s, ok) ==
    LET id == real_id(env.device_list,
                      selected_device(InputNames(env.device_list), env.choice))
    IN  IF recording[s]
        THEN /\ recording' = [recording EXCEPT ![s] = FALSE]
             /\ stream' = [stream EXCEPT
                               ![s] = IF @ = "none" THEN @ ELSE "closed"]
             /\ pending_at_stop' = pending_at_stop \cup PendingSamples
             /\ notice' = [notice EXCEPT ![s] = "none"]
             /\ open_streams' =
                    [open_streams EXCEPT
                         ![s] = IF stream[s] = "none" THEN @ ELSE @ - 1]
             /\ UNCHANGED device
        ELSE /\ recording' = [recording EXCEPT ![s] = ok]
             /\ stream' = [stream EXCEPT ![s] = IF ok THEN "open" ELSE @]
             /\ open_streams' =
                    [open_streams EXCEPT ![s] = IF ok THEN @ + 1 ELSE @]
             /\ notice' = [notice EXCEPT
                               ![s] = IF ok THEN "listening" ELSE "error"]
             /\ device' = [device EXCEPT ![s] = id]
             /\ UNCHANGED pending_at_stop

\* Faulty variant: a stop flips the flag and leaves the stream running.
ToggleLeavesStream(s, ok) ==
    LET id == real_id(env.device_list,
                      selected_device(InputNames(env.device_list), env.choice))
        started == ok /\ CanOpen(env.device_list, id)
    IN  IF recording[s]
        THEN /\ recording' = [recording EXCEPT ![s] = FALSE]
             /\ pending_at_stop' = pending_at_stop \cup PendingSamples
             /\ notice' = [notice EXCEPT ![s] = "none"]
             /\ UNCHANGED <<stream, open_streams, device>>
        ELSE /\ recording' = [recording EXCEPT ![s] = started]
             /\ stream' = [stream EXCEPT ![s] = IF started THEN "open" ELSE @]
             /\ open_streams' =
                    [open_streams EXCEPT ![s] = IF started THEN @ + 1 ELSE @]
             /\ notice' = [notice EXCEPT
                               ![s] = IF started THEN "listening" ELSE "error"]
             /\ device' = [device EXCEPT ![s] = id]
             /\ UNCHANGED pending_at_stop

\* A failed start shows st.error and resets the flag; a start shows a toast.
Toggle(s, ok) ==
    LET id == real_id(env.device_list,
                      selected_device(InputNames(env.device_list), env.choice))
        started == ok /\ CanOpen(env.device_list, id)
    IN  IF recording[s]
        THEN /\ recording' = [recording EXCEPT ![s] = FALSE]
             /\ stream' = [stream EXCEPT
                               ![s] = IF @ = "none" THEN @ ELSE "closed"]
             /\ pending_at_stop' = pending_at_stop \cup PendingSamples
             /\ notice' = [notice EXCEPT ![s] = "none"]
             /\ open_streams' =
                    [open_streams EXCEPT
                         ![s] = IF stream[s] = "none" THEN @ ELSE @ - 1]
             /\ UNCHANGED device
        ELSE /\ recording' = [recording EXCEPT ![s] = started]
             /\ stream' = [stream EXCEPT ![s] = IF started THEN "open" ELSE @]
             /\ open_streams' =
                    [open_streams EXCEPT ![s] = IF started THEN @ + 1 ELSE @]
             /\ notice' = [notice EXCEPT
                               ![s] = IF started THEN "listening" ELSE "error"]
             /\ device' = [device EXCEPT ![s] = id]
             /\ UNCHANGED pending_at_stop

\* The save button, on the session's log after this run's drain.
SaveButton(s) ==
    /\ audio_file' = SaveAudio(audio_file, audio_buffer'[s])
    /\ transcript_file' = SaveTranscriptUI(transcript_file, transcript_text'[s])
    /\ notice' = [notice EXCEPT ![s] = "saved"]

Controls(s, click, ok) ==
    /\ IF click = "toggle"
       THEN Toggle(s, ok) /\ toggles' = toggles + 1
       ELSE UNCHANGED <<recording, stream, pending_at_stop, toggles, device,
                        open_streams>>
    /\ IF click = "save" THEN SaveButton(s) ELSE UNCHANGED file_vars
    /\ click = "none" => notice' = [notice EXCEPT ![s] = "none"]

Clicks == {"none", "toggle", "save"}

\* Faulty variant: the run waits for a transcription call in progress.
ScriptRunReadyJoin(s, click) ==
    /\ frontend = "ui"
    /\ pcS[s] = "idle"
    /\ s \in env.sessions
    /\ click # "none" => initialised[s]
    /\ click = "toggle" => toggles < env.toggles
    /\ \A t \in Sessions : pcT[t] # "transcribing"

\* Faulty variant: the script is not rerun by itself once the page is up.
ScriptRunReadyNoRerun(s, click) ==
    /\ frontend = "ui"
    /\ pcS[s] = "idle"
    /\ s \in env.sessions
    /\ click # "none" => initialised[s]
    /\ click = "none" => ~initialised[s]
    /\ click = "toggle" => toggles < env.toggles

\* When a run of the script for session s can take place: the previous run
\* has ended (a run blocked in generate_summary has not), and a button can
\* only be clicked on a rendered page.
ScriptRunReady(s, click) ==
    /\ frontend = "ui"
    /\ pcS[s] = "idle"
    /\ s \in env.sessions
    /\ click # "none" => initialised[s]
    /\ click = "toggle" => toggles < env.toggles

\* (ollama.chat has no timeout either: a call that never returns leaves the
\* run, or the terminal loop, at "summarizing".)
\* One run of the script for session s, triggered by a page load, the
\* rerun while recording, or a click: state set-up, thread start, drain,
\* summarization check; the run blocks in generate_summary when a summary
\* is due and otherwise goes on to the controls.
ScriptRun(s, click, ok) ==
    /\ ScriptRunReady(s, click)
    /\ initialised' = [initialised EXCEPT ![s] = TRUE]
    /\ thread_started' = [thread_started EXCEPT ![s] = TRUE]
    /\ pcT' = IF thread_started[s] THEN pcT ELSE [pcT EXCEPT ![s] = "collect"]
    /\ Drain(s)
    /\ IF SummaryDue(Len(transcript_text'[s]), last_summary_idx[s])
       THEN /\ pcS' = [pcS EXCEPT ![s] = "summarizing"]
            /\ call' = [call EXCEPT
                   ![s] = SummaryCall(transcript_text'[s],
                                      last_summary_idx[s], click)]
            /\ notice' = [notice EXCEPT ![s] = "none"]
            /\ spans' = [spans EXCEPT
                   ![s] = Append(@, <<last_summary_idx[s],
                                      Len(transcript_text'[s])>>)]
            /\ UNCHANGED <<recording, stream, pending_at_stop, toggles,
                           file_vars, device, open_streams>>
       ELSE /\ Controls(s, click, ok)
            /\ UNCHANGED <<pcS, call, spans>>
    /\ UNCHANGED <<frontend, env, batch, audio_q, audio_chunk, outcome, captured, windows,
                   summary_log, last_summary_idx>>

\* generate_summary comes back (content or caught exception): the entry is
\* appended, the boundary advanced, and the run goes on to the controls.
UiSummaryDone(s, resp, ok) ==
    /\ frontend = "ui"
    /\ pcS[s] = "summarizing"
    /\ RecordSummary(s, resp)
    /\ pcS' = [pcS EXCEPT ![s] = "idle"]
    /\ call' = [call EXCEPT ![s] = NoCall]
    /\ UNCHANGED <<transcript_text, audio_buffer>>
    /\ Controls(s, call[s].click, ok)
    /\ UNCHANGED <<frontend, env, batch, spans, audio_q, result_q, pcT, audio_chunk, outcome,
                   captured, windows, initialised, thread_started>>

\* ---- scribe_cli.py
StartOutcomes == {"no_device", "open_failed", "start_failed", "started"}

\* main up to the loop: the batching thread is started, the device is
\* selected (sys.exit(1) when there is none or the query fails), the stream
\* is opened and started; an exception there runs the finally block on its
\* way out of main ("unwinding").
CliMain(out) ==
    LET id == select_input_device(env.device_list, env.choice)
    IN  /\ frontend = "cli"
        /\ ~initialised[1]
        /\ id = NoDevice => out = "no_device"
        /\ initialised' = [initialised EXCEPT ![1] = TRUE]
        /\ pcT' = [pcT EXCEPT ![1] = "collect"]
        /\ device' = [device EXCEPT
               ![1] = IF out = "no_device" THEN NoDevice ELSE id]
        /\ recording' = [recording EXCEPT ![1] = (out = "started")]
        /\ open_streams' =
               [open_streams EXCEPT ![1] = IF out = "started" THEN 1 ELSE 0]
        /\ stream' = [stream EXCEPT
               ![1] = CASE out = "started" -> "open"
                        [] out = "start_failed" -> "closed"
                        [] OTHER -> "none"]
        /\ pcS' = [pcS EXCEPT
               ![1] = CASE out = "started" -> "loop"
                        [] out = "no_device" -> "aborted"
                        [] OTHER -> "unwinding"]
        /\ UNCHANGED <<frontend, env, batch, spans, audio_q, result_q,
                       audio_chunk, outcome, captured, windows,
                       pending_at_stop, thread_started, transcript_text,
                       audio_buffer, summary_log, last_summary_idx, call,
                       toggles, notice, file_vars>>

\* The terminal loop is at the top of an iteration of `while recording`.
CliTickReady == frontend = "cli" /\ pcS[1] = "loop"

\* One iteration of `while recording`: drain, summarization check.
CliTick ==
    /\ CliTickReady
    /\ Drain(1)
    /\ IF SummaryDue(Len(transcript_text'[1]), last_summary_idx[1])
       THEN /\ pcS' = [pcS EXCEPT ![1] = "summarizing"]
            /\ call' = [call EXCEPT
                   ![1] = SummaryCall(transcript_text'[1],
                                      last_summary_idx[1], "none")]
            /\ spans' = [spans EXCEPT
                   ![1] = Append(@, <<last_summary_idx[1],
                                      Len(transcript_text'[1])>>)]
       ELSE UNCHANGED <<pcS, call, spans>>
    /\ UNCHANGED <<frontend, env, batch, open_streams, device, audio_q, pcT, audio_chunk, outcome, captured,
                   windows, pending_at_stop, initialised, thread_started,
                   recording, stream, summary_log, last_summary_idx, toggles,
                   notice, file_vars>>

\* Faulty variant: an exception of the service is not caught and leaves main
\* through the finally block.
CliSummaryDoneUncaught(resp) ==
    /\ frontend = "cli"
    /\ pcS[1] = "summarizing"
    /\ IF resp.raised
       THEN /\ pcS' = [pcS EXCEPT ![1] = "unwinding"]
            /\ recording' = [recording EXCEPT ![1] = FALSE]
            /\ stream' = [stream EXCEPT ![1] = "closed"]
            /\ open_streams' = [open_streams EXCEPT ![1] = @ - 1]
            /\ UNCHANGED <<summary_log, last_summary_idx>>
       ELSE /\ RecordSummary(1, resp)
            /\ pcS' = [pcS EXCEPT ![1] = "loop"]
            /\ UNCHANGED <<recording, stream, open_streams>>
    /\ call' = [call EXCEPT ![1] = NoCall]
    /\ UNCHANGED <<frontend, env, batch, device, spans, worker_vars,
                   initialised, thread_started, transcript_text,
                   audio_buffer, toggles, notice, file_vars>>

\* generate_summary comes back in the terminal loop.
CliSummaryDone(resp) ==
    /\ frontend = "cli"
    /\ pcS[1] = "summarizing"
    /\ RecordSummary(1, resp)
    /\ pcS' = [pcS EXCEPT ![1] = "loop"]
    /\ call' = [call EXCEPT ![1] = NoCall]
    /\ UNCHANGED <<frontend, env, batch, open_streams, device, spans,
                   worker_vars, initialised, thread_started,
                   recording, stream, transcript_text, audio_buffer, toggles,
                   notice, file_vars>>

\* Ctrl+C in the loop (also inside generate_summary, whose except clause
\* does not catch KeyboardInterrupt): recording = False, the loop ends and
\* the finally block stops and closes the stream.
CliInterrupt ==
    /\ frontend = "cli"
    /\ pcS[1] \in {"loop", "summarizing"}
    /\ recording' = [recording EXCEPT ![1] = FALSE]
    /\ stream' = [stream EXCEPT ![1] = "closed"]
    /\ open_streams' = [open_streams EXCEPT ![1] = @ - 1]
    /\ pending_at_stop' = pending_at_stop \cup PendingSamples
    /\ call' = [call EXCEPT ![1] = NoCall]
    /\ pcS' = [pcS EXCEPT ![1] = "saving"]
    /\ UNCHANGED <<frontend, env, batch, device, spans,
                   audio_q, result_q, pcT, audio_chunk, outcome,
                   captured, windows, initialised, thread_started,
                   transcript_text, audio_buffer, summary_log,
                   last_summary_idx, toggles, notice, file_vars>>

\* save_data() at the end of the finally block; then the process exits, or
\* the exception that ran the block ends it ("crashed").
save_data ==
    /\ frontend = "cli"
    /\ pcS[1] \in {"saving", "unwinding"}
    /\ audio_file' = SaveAudio(audio_file, audio_buffer[1])
    /\ transcript_file' = SaveTranscriptCLI(transcript_file, transcript_text[1])
    /\ pcS' = [pcS EXCEPT
           ![1] = IF pcS[1] = "saving" THEN "exited" ELSE "crashed"]
    /\ UNCHANGED <<frontend, env, batch, open_streams, device, spans,
                   worker_vars, initialised, thread_started,
                   recording, stream, transcript_text, audio_buffer,
                   summary_log, last_summary_idx, call, toggles, notice>>

\* ------------------------------------------------------------------ batch tool
\* Lines of a transcript file, as f.readlines() returns them.
FileLines ==
    { Formatted(TimeHMS(1), hello) \o <<"\n">>,
      Formatted(TimeHMS(2), <<" ">>) \o <<"\n">>,
      <<"n", "o", "t", "e", "\n">>,
      Formatted(TimeHMS(3), <<"a">> \o Sep \o <<"b">>) \o <<"\n">> }

\* "]** " in line
HasSep(line) == Contains(line, Sep)

\* [line.split("]** ")[-1].strip() for line in lines if "]** " in line]
clean_lines(lines) ==
    LET kept == SelectSeq(lines, HasSep)
    IN  [k \in 1..Len(kept) |-> Strip(SplitLast(kept[k], Sep))]

Min(a, b) == IF a <= b THEN a ELSE b

\* Faulty variant: the slice is one line short.
ChunkShort(cl, i) == SubSeq(cl, i + 1, Min(i + SUMMARY_INTERVAL - 1, Len(cl)))

\* clean_lines[i:i + SUMMARY_INTERVAL]
Chunk(cl, i) == SubSeq(cl, i + 1, Min(i + SUMMARY_INTERVAL, Len(cl)))

\* The summary written for a chunk: the content, or the placeholder when
\* generate_summary returned None.
BatchSummary(resp) ==
    IF resp.raised THEN "LLM Error: No response generated." ELSE resp.text

\* summary_tester.py main up to the loop: return when the file is missing,
\* else read the file and clean its lines.
BatchMain ==
    /\ batch.pc = "start"
    /\ batch' = IF batch.exists
                THEN [batch EXCEPT !.pc = "chunks",
                                   !.clean_lines = clean_lines(batch.lines)]
                ELSE [batch EXCEPT !.pc = "done"]
    /\ UNCHANGED <<frontend, env, worker_vars, session_vars, file_vars,
                   device, spans, open_streams>>

\* One iteration of the loop over range(0, len(clean_lines),
\* SUMMARY_INTERVAL): the chunk is summarized and written when its text is
\* not blank.
BatchChunk(resp) ==
    LET chunk == Chunk(batch.clean_lines, batch.i)
        text_block == Join(chunk, <<" ">>)
        written == Strip(text_block) # <<>>
    IN  /\ batch.pc = "chunks"
        /\ batch.i < Len(batch.clean_lines)
        /\ batch' =
               [batch EXCEPT
                   !.i = @ + SUMMARY_INTERVAL,
                   !.chunks =
                       Append(@, [first |-> batch.i + 1,
                                  last |-> batch.i + Len(chunk),
                                  lines |-> chunk,
                                  written |-> written,
                                  text_block |-> text_block,
                                  summary |-> IF written
                                              THEN BatchSummary(resp)
                                              ELSE ""])]
        /\ UNCHANGED <<frontend, env, worker_vars, session_vars, file_vars,
                       device, spans, open_streams>>

\* The range is exhausted: the output file is closed.
BatchDone ==
    /\ batch.pc = "chunks"
    /\ batch.i >= Len(batch.clean_lines)
    /\ batch' = [batch EXCEPT !.pc = "done"]
    /\ UNCHANGED <<frontend, env, worker_vars, session_vars, file_vars,
                   device, spans, open_streams>>

\* The batch tool on any transcript file, or without one.
InitBatch ==
    /\ frontend = "batch"
    /\ env = [sessions |-> {}, samples |-> 0, toggles |-> 0,
              previous_file |-> Absent, device_list |-> <<>>,
              choice |-> Untouched]
    /\ \E exists \in BOOLEAN, lines \in SeqsUpTo(FileLines, MaxFileLines) :
           /\ ~exists => lines = <<>>
           /\ batch = [NoBatch EXCEPT !.pc = "start", !.exists = exists,
                                      !.lines = lines]
    /\ Start

NextBatch ==
    \/ BatchMain
    \/ \E resp \in Responses : BatchChunk(resp)
    \/ BatchDone

SpecBatch == InitBatch /\ [][NextBatch]_vars

\* ------------------------------------------------------------------ specification
Next ==
    \/ \E frames \in FrameCounts : audio_callback(frames)
    \/ \E t \in Sessions : Collect(t)
    \/ \E t \in Sessions : Transcribe(t)
    \/ \E t \in Sessions, raw \in Texts : TranscribeReturn(t, raw)
    \/ \E t \in Sessions : TranscribeRaise(t)
    \/ \E s \in Sessions, click \in Clicks, ok \in BOOLEAN :
           ScriptRun(s, click, ok)
    \/ \E s \in Sessions, resp \in Responses, ok \in BOOLEAN :
           UiSummaryDone(s, resp, ok)
    \/ \E out \in StartOutcomes : CliMain(out)
    \/ CliTick
    \/ \E resp \in Responses : CliSummaryDone(resp)
    \/ CliInterrupt
    \/ save_data

Spec == Init /\ [][Next]_vars

\* The interactive front end alone, for the runs with two sessions.
NextUI ==
    \/ \E frames \in FrameCounts : audio_callback(frames)
    \/ \E t \in Sessions : Collect(t)
    \/ \E t \in Sessions : Transcribe(t)
    \/ \E t \in Sessions, raw \in Texts : TranscribeReturn(t, raw)
    \/ \E t \in Sessions : TranscribeRaise(t)
    \/ \E s \in Sessions, click \in Clicks, ok \in BOOLEAN :
           ScriptRun(s, click, ok)
    \/ \E s \in Sessions, resp \in Responses, ok \in BOOLEAN :
           UiSummaryDone(s, resp, ok)

SpecShared == InitShared /\ [][NextUI]_vars

SpecDevices == InitDevices /\ [][Next]_vars

SpecLong == InitLong /\ [][Next]_vars

\* scribe.py: `if st.session_state.recording: time.sleep(1); st.rerun()`
\* runs the script again, without a click, as long as the session records.
Rerun(s) == recording[s] /\ \E ok \in BOOLEAN : ScriptRun(s, "none", ok)

\* One presentation tick: the rerun of the script, or one iteration of the
\* terminal loop.
Tick == (\E s \in Sessions : Rerun(s)) \/ CliTick

\* ollama.chat comes back, with content or with an exception.
SummaryReturns ==
    \/ \E s \in Sessions, resp \in Responses, ok \in BOOLEAN :
           UiSummaryDone(s, resp, ok)
    \/ \E resp \in Responses : CliSummaryDone(resp)

\* mlx_whisper.transcribe comes back, with a text or with an exception.
TranscriptionReturns ==
    \E t \in Sessions :
        (\E raw \in Texts : TranscribeReturn(t, raw)) \/ TranscribeRaise(t)

\* Fair scheduling of the one session's presentation tick, and services
\* that always return.
Fairness ==
    /\ WF_vars(Tick)
    /\ WF_vars(SummaryReturns)
    /\ WF_vars(TranscriptionReturns)

SpecLive == InitLive /\ [][Next]_vars /\ Fairness

\* ------------------------------------------------------------------ claims
\* C1: the summarization boundary never exceeds the length of the transcript
\* log, never decreases, and whenever it changes it becomes exactly the log
\* length the summarization check of that tick read after the drain.
BoundaryWithinLog ==
    \A s \in Sessions : last_summary_idx[s] <= Len(transcript_text[s])

BoundaryStep ==
    \A s \in Sessions :
        last_summary_idx'[s] # last_summary_idx[s] =>
            /\ last_summary_idx'[s] > last_summary_idx[s]
            /\ last_summary_idx'[s] = call[s].current_len
            /\ last_summary_idx'[s] = Len(transcript_text[s])
            /\ transcript_text'[s] = transcript_text[s]

C1_BoundaryMonotone == []BoundaryWithinLog /\ [][BoundaryStep]_vars

\* C1 witness: the boundary has advanced and the log has grown past it.
C1_Witness ==
    \E s \in Sessions :
        /\ last_summary_idx[s] >= SUMMARY_INTERVAL
        /\ Len(transcript_text[s]) > last_summary_idx[s]

\* C2: a window is submitted to transcription exactly once, when it is full,
\* and the loop's buffer is empty again before another sample is accumulated,
\* whatever the call did (text, empty text, exception).
SamplesOf(w) == Range(w)

WindowsSubmittedOnce ==
    /\ \A i, j \in 1..Len(windows) :
           i # j => SamplesOf(windows[i]) \cap SamplesOf(windows[j]) = {}
    /\ \A t \in Sessions :
           /\ pcT[t] = "transcribing" =>
                  Cardinality({i \in 1..Len(windows) :
                                   windows[i] = audio_chunk[t]}) = 1
           /\ pcT[t] = "collect" =>
                  \A i \in 1..Len(windows) :
                      SamplesOf(windows[i]) \cap SamplesOf(audio_chunk[t]) = {}

WindowStep ==
    \A t \in Sessions :
        /\ Len(audio_chunk'[t]) > Len(audio_chunk[t]) =>
               /\ pcT[t] = "collect" /\ pcT'[t] = "collect"
               /\ ~WindowFull(audio_chunk[t])
        /\ (pcT[t] = "collect" /\ pcT'[t] = "transcribing") =>
               /\ WindowFull(audio_chunk[t])
               /\ windows' = Append(windows, audio_chunk[t])
        /\ (pcT[t] = "transcribing" /\ pcT'[t] = "collect") =>
               /\ audio_chunk'[t] = <<>>
               /\ windows' = windows
        /\ (pcT[t] = "collect" /\ WindowFull(audio_chunk[t])) =>
               \/ pcT'[t] = "transcribing"
               \/ audio_chunk'[t] = audio_chunk[t]

C2_OneCallPerWindow == []WindowsSubmittedOnce /\ [][WindowStep]_vars

\* C2 witness: after a call that raised, the same loop is transcribing its
\* next window.
C2_Witness ==
    \E t \in Sessions :
        /\ outcome[t] = Raised
        /\ pcT[t] = "transcribing"
        /\ Len(windows) >= 2

\* C3: every line of the log (and of the results queue) carries text that is
\* non-empty after stripping; a call that returns empty or whitespace-only
\* text, or raises, enqueues nothing and changes neither log nor audio
\* buffer; the log grows only by the lines drained from the results queue.
StrippedTexts == {Strip(raw) : raw \in Texts} \ {<<>>}

IsTranscriptLine(line) ==
    \E text \in StrippedTexts, k \in 0..Len(windows) :
        line = Formatted(TimeHMS(k), text)

LinesAreTranscribed ==
    /\ \A i \in 1..Len(result_q) : IsTranscriptLine(result_q[i][1])
    /\ \A s \in Sessions :
           \A i \in 1..Len(transcript_text[s]) :
               IsTranscriptLine(transcript_text[s][i])

ResultStep ==
    /\ \A t \in Sessions :
           (pcT[t] = "transcribing" /\ pcT'[t] = "collect") =>
               /\ IF outcome'[t].kind = "returned"
                        /\ Strip(outcome'[t].text) # <<>>
                  THEN result_q' =
                           Append(result_q,
                                  <<Formatted(TimeHMS(Now),
                                              Strip(outcome'[t].text)),
                                    audio_chunk[t]>>)
                  ELSE result_q' = result_q
               /\ transcript_text' = transcript_text
               /\ audio_buffer' = audio_buffer
    /\ Len(result_q') > Len(result_q) =>
           \E t \in Sessions : pcT[t] = "transcribing" /\ pcT'[t] = "collect"
    /\ \A s \in Sessions :
           (transcript_text'[s] # transcript_text[s]
                \/ audio_buffer'[s] # audio_buffer[s]) =>
               /\ transcript_text'[s] = transcript_text[s] \o Map1(result_q)
               /\ audio_buffer'[s] = audio_buffer[s] \o Map2(result_q)
               /\ result_q' = <<>>

C3_OnlyNonEmptyText == []LinesAreTranscribed /\ [][ResultStep]_vars

\* C3 witness: a line is in the log and the last call returned only
\* whitespace.
C3_Witness ==
    \E s \in Sessions, t \in Sessions :
        /\ Len(transcript_text[s]) >= 1
        /\ outcome[t] = Returned(<<" ">>)
        /\ result_q = <<>>

\* C4: a summarization call is in progress exactly when the tick found at
\* least SUMMARY_INTERVAL lines past the boundary; its input is the text of
\* every line from the boundary on, timestamp prefix removed, joined by
\* single spaces; between ticks fewer than SUMMARY_INTERVAL lines are past
\* the boundary.
WithoutTimestamp(line) == Drop(line, Len(Formatted(TimeHMS(0), <<>>)))

SpanText(lines) ==
    Join([i \in 1..Len(lines) |-> WithoutTimestamp(lines[i])], <<" ">>)

C4_SummaryInput ==
    \A s \in Sessions :
        /\ pcS[s] = "summarizing" =>
               /\ call[s].current_len = Len(transcript_text[s])
               /\ call[s].current_len - last_summary_idx[s] >= SUMMARY_INTERVAL
               /\ call[s].clean_text =
                      SpanText(Drop(transcript_text[s], last_summary_idx[s]))
        /\ pcS[s] \in {"idle", "loop"} =>
               Len(transcript_text[s]) - last_summary_idx[s] < SUMMARY_INTERVAL

\* C5: every completed summarization call, failed or not, appends exactly
\* one entry to the summary log (an error entry when the service raised)
\* and moves the boundary to the log length, so no span is submitted twice;
\* after a failure the presentation loop can still tick and drain.
SummaryCompletes(s) ==
    pcS[s] = "summarizing" /\ pcS'[s] \in {"idle", "loop"}

SummaryStep ==
    \A s \in Sessions :
        /\ SummaryCompletes(s) =>
               /\ Len(summary_log'[s]) = Len(summary_log[s]) + 1
               /\ SubSeq(summary_log'[s], 1, Len(summary_log[s]))
                      = summary_log[s]
               /\ last_summary_idx'[s] = Len(transcript_text'[s])
        /\ summary_log'[s] # summary_log[s] => SummaryCompletes(s)

\* Session s can make a presentation tick (no button pressed).
CanTick(s) == ScriptRunReady(s, "none") \/ (s = 1 /\ CliTickReady)

InLoop(s) ==
    \/ frontend = "ui" /\ initialised[s] /\ pcS[s] = "idle"
    \/ frontend = "cli" /\ s = 1 /\ pcS[s] = "loop"

LastFailed(s) ==
    summary_log[s] # <<>> /\ summary_log[s][Len(summary_log[s])].summary.error

SpansNotResubmitted ==
    \A s \in Sessions :
        /\ last_summary_idx[s] >= SUMMARY_INTERVAL * Len(summary_log[s])
        /\ pcS[s] = "summarizing" =>
               call[s].clean_text =
                   CleanText(Drop(transcript_text[s], last_summary_idx[s]))
        /\ (InLoop(s) /\ LastFailed(s)) => CanTick(s)

C5_FailedSummaryAdvances == []SpansNotResubmitted /\ [][SummaryStep]_vars

\* C5 witness: the last summary failed, the boundary moved on, and a later
\* tick has drained a further line.
C5_Witness ==
    \E s \in Sessions :
        /\ LastFailed(s)
        /\ last_summary_idx[s] >= SUMMARY_INTERVAL
        /\ Len(transcript_text[s]) > last_summary_idx[s]
        /\ result_q = <<>>

\* C6: right after a save made with an empty transcript log, the transcript
\* file exists and is empty, in both front ends.
JustSaved(s) ==
    \/ frontend = "ui" /\ notice[s] = "saved"
    \/ frontend = "cli" /\ s = 1 /\ pcS[s] \in {"exited", "crashed"}

C6_EmptySaveBothFrontEnds ==
    \A s \in Sessions :
        (JustSaved(s) /\ transcript_text[s] = <<>>) =>
            transcript_file = File(<<>>)

\* C6 as amended: the interactive front end leaves an existing, empty
\* file; the terminal front end skips the write, so the file is whatever it
\* was before (absent, or the previous meeting's transcript).
C6_EmptySave ==
    \A s \in Sessions :
        (JustSaved(s) /\ transcript_text[s] = <<>>) =>
            IF frontend = "ui"
            THEN transcript_file = File(<<>>)
            ELSE transcript_file = env.previous_file

\* C6 witness: an empty save in the interactive front end has replaced the
\* previous meeting's transcript by an empty file.
C6_Witness ==
    /\ frontend = "ui"
    /\ env.previous_file = OldTranscript
    /\ JustSaved(1)
    /\ transcript_text[1] = <<>>
    /\ transcript_file = File(<<>>)

\* C7: the recording flag changes only with the stream: Idle to Listening
\* exactly when a stream is opened, Listening to Idle exactly when the open
\* stream is closed; a save changes neither.
SaveStep(s) ==
    \/ frontend = "ui" /\ notice'[s] = "saved"
    \/ frontend = "cli" /\ s = 1 /\ pcS[s] \in {"saving", "unwinding"}
           /\ pcS'[s] \in {"exited", "crashed"}

StateMachineStep ==
    \A s \in Sessions :
        /\ (~recording[s] /\ recording'[s]) =>
               stream[s] # "open" /\ stream'[s] = "open"
        /\ (recording[s] /\ ~recording'[s]) =>
               stream[s] = "open" /\ stream'[s] = "closed"
        /\ (stream[s] = "open") # (stream'[s] = "open") =>
               recording'[s] # recording[s]
        /\ SaveStep(s) =>
               recording'[s] = recording[s] /\ stream'[s] = stream[s]

C7_TwoStates == [][StateMachineStep]_vars

\* C7 witness: a save was made while Listening, the stream still open.
C7_Witness ==
    \E s \in Sessions :
        recording[s] /\ stream[s] = "open" /\ notice[s] = "saved"

\* C8: audio that was queued or in a partial window at a stop is never part
\* of a window submitted to transcription (so it never yields a line).
C8_PendingAudioAbandoned ==
    \A i \in 1..Len(windows) : SamplesOf(windows[i]) \cap pending_at_stop = {}

\* C8 as amended: that audio is kept, not abandoned. It stays in the audio
\* queue or in the loop's partial window until it is submitted as part of a
\* full window; no partial window is ever submitted.
HeldSamples ==
    Range(Concat(audio_q))
        \cup UNION {SamplesOf(audio_chunk[t]) : t \in Sessions}
        \cup UNION {SamplesOf(windows[i]) : i \in 1..Len(windows)}

C8_PendingAudioKept ==
    /\ pending_at_stop \subseteq HeldSamples
    /\ \A i \in 1..Len(windows) : WindowFull(windows[i])

\* C8 witness: after a stop and a later start, a submitted window holds
\* audio from before the stop together with audio captured after it.
C8_Witness ==
    \E s \in Sessions, i \in 1..Len(windows) :
        /\ recording[s]
        /\ SamplesOf(windows[i]) \cap pending_at_stop # {}
        /\ ~(SamplesOf(windows[i]) \subseteq pending_at_stop)

\* C9: while a service call is outstanding (and so also when it never
\* returns), the presentation loop can complete a tick.
LoopStarted(s) ==
    \/ frontend = "ui" /\ s \in env.sessions
    \/ frontend = "cli" /\ s = 1 /\ pcS[s] \in {"loop", "summarizing"}

Transcribing == \E t \in Sessions : pcT[t] = "transcribing"

C9_LoopAlwaysResponsive ==
    \A s \in Sessions :
        (LoopStarted(s) /\ (Transcribing \/ pcS[s] = "summarizing")) =>
            CanTick(s)

\* C9 as amended: an outstanding transcription call never keeps the
\* presentation loop from ticking; an outstanding summarization call does,
\* because the loop itself makes that call.
C9_OnlyTranscriptionHangIsHarmless ==
    \A s \in Sessions :
        LoopStarted(s) =>
            /\ (Transcribing /\ pcS[s] # "summarizing") => CanTick(s)
            /\ pcS[s] # "summarizing" => CanTick(s)
            /\ pcS[s] = "summarizing" => ~CanTick(s)

\* C9 witness: with the second window's transcription outstanding, the
\* first window's line has been drained into the log.
C9_Witness ==
    \E s \in Sessions :
        /\ LoopStarted(s)
        /\ Transcribing
        /\ Len(windows) >= 2
        /\ Len(transcript_text[s]) >= 1
        /\ result_q = <<>>

\* C10: at most one batching loop is running.
BatchingLoops == {t \in Sessions : pcT[t] # "none"}

C10_SingleBatchingLoop == Cardinality(BatchingLoops) <= 1

\* C11 as stated: no failure ends the process; the terminal process is
\* never ended by sys.exit(1) ("aborted") or by an exception ("crashed").
C11_NoFailureEndsProcess ==
    \A s \in Sessions : pcS[s] \notin {"aborted", "crashed"}

\* C11 as amended: a transcription or summarization failure never ends the
\* process or a loop, and in the interactive front end a failed start only
\* shows an error. In the terminal front end a device failure does end the
\* process, and it is the only failure that does: without a device (or
\* when the query fails) main exits at once; when opening or starting the
\* stream raises, the finally block saves and the exception ends main.
ProcessEnds == Alive /\ ~Alive'

FailureStep ==
    /\ \A t \in Sessions :
           (pcT[t] = "transcribing" /\ outcome'[t] = Raised
                /\ pcT'[t] # "transcribing") =>
               /\ pcT'[t] = "collect"
               /\ pcS' = pcS
               /\ ~ProcessEnds
    /\ \A s \in Sessions :
           /\ (pcS[s] = "summarizing" /\ pcS'[s] # "summarizing") =>
                  \/ pcS'[s] \in {"idle", "loop"}
                  \/ pcS'[s] = "saving" /\ summary_log'[s] = summary_log[s]
           /\ (pcS'[s] = "unwinding" /\ pcS[s] # "unwinding") =>
                  /\ pcS[s] = "idle" /\ ~initialised[s]
                  /\ device'[s] # NoDevice
           /\ (pcS'[s] = "aborted" /\ pcS[s] # "aborted") =>
                  /\ pcS[s] = "idle" /\ ~initialised[s]
                  /\ device'[s] = NoDevice
           /\ pcS'[s] = "crashed" => pcS[s] \in {"unwinding", "crashed"}
           /\ pcT[s] # "none" => pcT'[s] # "none"
    /\ ProcessEnds => frontend = "cli"

FailedStartLeavesSessionRunning ==
    \A s \in Sessions :
        /\ (frontend = "ui" /\ notice[s] = "error") =>
               /\ pcS[s] = "idle"
               /\ ScriptRunReady(s, "none")
        /\ pcS[s] \in {"aborted", "crashed", "unwinding"} =>
               /\ frontend = "cli"
               /\ ~recording[s]
               /\ summary_log[s] = <<>> /\ windows = <<>>

C11_OnlyDeviceFailureEndsTerminalProcess ==
    []FailedStartLeavesSessionRunning /\ [][FailureStep]_vars

\* C11 witness: the terminal loop runs on after a transcription call raised
\* and the last summarization call failed.
C11_Witness ==
    /\ frontend = "cli"
    /\ pcS[1] = "loop"
    /\ \E t \in Sessions : outcome[t] = Raised
    /\ LastFailed(1)

\* C12: when no input device is found, or opening or starting the stream
\* fails, capture does not start: the recording flag is false and no stream
\* is open afterwards (the step of a failed start changes no stream from
\* not open to open, and enqueues no audio ever for a machine without input
\* devices).
StartFailed(s) ==
    \/ frontend = "ui" /\ notice[s] = "error"
    \/ frontend = "cli" /\ pcS[s] \in {"aborted", "unwinding", "crashed"}

NoCaptureAfterFailedStart ==
    \A s \in Sessions :
        /\ StartFailed(s) => ~recording[s] /\ stream[s] # "open"
        /\ InputDevices(env.device_list) = <<>> =>
               /\ ~recording[s] /\ stream[s] = "none"
               /\ captured = 0
               /\ frontend = "cli" => pcS[s] \in {"idle", "aborted"}

FailedStartStep ==
    \A s \in Sessions :
        (StartFailed(s)' /\ (pcS'[s] # pcS[s] \/ toggles' # toggles)) =>
            /\ ~recording'[s]
            /\ stream'[s] # "open"
            /\ audio_q' = audio_q

RaiseStep(t) ==
    pcT[t] = "transcribing" /\ pcT'[t] # "transcribing" /\ outcome'[t] = Raised

TranscriptionFailureStep ==
    \A t \in Sessions :
        /\ RaiseStep(t) =>
               /\ result_q' = result_q
               /\ windows' = windows
               /\ audio_q' = audio_q
               /\ transcript_text' = transcript_text
               /\ audio_buffer' = audio_buffer
               /\ pcT'[t] = "collect"
               /\ audio_chunk'[t] = <<>>
        /\ (pcT[t] # "none" /\ Alive') => pcT'[t] # "none"

LoopGoesOnAfterFailure ==
    \A t \in Sessions :
        /\ (outcome[t] = Raised /\ pcT[t] = "collect") =>
               \A i \in 1..Len(windows) :
                   SamplesOf(windows[i]) \cap SamplesOf(audio_chunk[t]) = {}
        /\ (outcome[t] = Raised /\ pcT[t] # "transcribing"
                /\ windows # <<>>) =>
               /\ \A i \in 1..Len(result_q) :
                      result_q[i][2] # windows[Len(windows)]
               /\ \A s \in Sessions : \A i \in 1..Len(audio_buffer[s]) :
                      audio_buffer[s][i] # windows[Len(windows)]

C13_TranscriptionFailureDropsWindow ==
    []LoopGoesOnAfterFailure /\ [][TranscriptionFailureStep]_vars

\* C13 witness: after the first window's call raised, nothing was enqueued
\* and the loop is accumulating the next window.
C13_Witness ==
    \E t \in Sessions :
        /\ outcome[t] = Raised
        /\ pcT[t] = "collect"
        /\ audio_chunk[t] # <<>>
        /\ Len(windows) = 1
        /\ result_q = <<>>
        /\ \A s \in Sessions : transcript_text[s] = <<>>

\* C14: a stop leaves the batching loop as it is (position, partial window,
\* audio queue, submitted windows); a loop once started keeps running as
\* long as the process lives; and no window of fewer than
\* SAMPLE_RATE * CHUNK_DURATION samples is ever submitted.
StopStep(s) == recording[s] /\ ~recording'[s]

StopLeavesLoopStep ==
    /\ \A s \in Sessions :
           StopStep(s) =>
               /\ pcT' = pcT
               /\ audio_chunk' = audio_chunk
               /\ audio_q' = audio_q
               /\ windows' = windows
               /\ Alive'
    /\ \A t \in Sessions : (pcT[t] # "none" /\ Alive') => pcT'[t] # "none"
    /\ Len(windows') > Len(windows) =>
           Len(windows'[Len(windows')]) >= SAMPLE_RATE * CHUNK_DURATION

NoPartialWindow ==
    /\ \A i \in 1..Len(windows) :
           Len(windows[i]) >= SAMPLE_RATE * CHUNK_DURATION
    /\ \A s \in Sessions : (initialised[s] /\ Alive) => pcT[s] # "none"

C14_StopNeitherStopsNorFlushes ==
    []NoPartialWindow /\ [][StopLeavesLoopStep]_vars

\* C14 witness: after a stop, with no stream open and the queue polled
\* empty, the loop holds a partial window that has not been submitted.
C14_Witness ==
    \E t \in Sessions :
        /\ Alive
        /\ \A s \in Sessions : stream[s] # "open"
        /\ pending_at_stop # {}
        /\ audio_q = <<>>
        /\ pcT[t] = "collect"
        /\ audio_chunk[t] # <<>>
        /\ Len(audio_chunk[t]) < SAMPLE_RATE * CHUNK_DURATION
        /\ SamplesOf(audio_chunk[t]) \subseteq pending_at_stop

\* C15: without an explicit choice, the default input device is the first
\* input device whose name contains "BlackHole" and, when there is none,
\* the first input device: it is what the select box shows and what the
\* start looks up (interactive), and the device the stream is opened on
\* (terminal).
ExpectedDefault(device_list) ==
    LET ins == InputDevices(device_list)
        IsMarked(i) == Contains(ins[i].name, Marker)
    IN  IF \E i \in 1..Len(ins) : IsMarked(i)
        THEN ins[CHOOSE i \in 1..Len(ins) :
                     IsMarked(i) /\ \A j \in 1..(i - 1) : ~IsMarked(j)]
        ELSE ins[1]

C15_DefaultDevice ==
    \A s \in Sessions :
        (env.choice = Untouched /\ InputDevices(env.device_list) # <<>>) =>
            LET expected == ExpectedDefault(env.device_list)
            IN  /\ frontend = "ui" =>
                       /\ selected_device(InputNames(env.device_list),
                                          env.choice) = expected.name
                       /\ device[s] # NoDevice =>
                              device[s] = real_id(env.device_list,
                                                  expected.name)
                /\ (frontend = "cli" /\ device[s] # NoDevice) =>
                       device[s] = DeviceId(expected.index)

\* C15 witness: the prompt was left empty on a machine whose second input
\* device is the marked one, and the stream was opened on that device.
C15_Witness ==
    /\ frontend = "cli"
    /\ env.choice = Untouched
    /\ env.device_list = query_devices(<< <<Mic, 1>>, <<BlackHole2ch, 1>> >>)
    /\ stream[1] = "open"
    /\ device[1] = DeviceId(1)

\* C16: the spans of the log submitted to successive summarization calls
\* follow each other without gap or overlap from the start of the log, each
\* holds at least SUMMARY_INTERVAL lines, and between ticks every line
\* below the boundary has been in exactly one call and every line at or
\* above it in none; the call in progress carries the text of its span.
SpanFrom(s, i) == spans[s][i][1]
SpanTo(s, i) == spans[s][i][2]

CallsWithLine(s, k) ==
    {i \in 1..Len(spans[s]) : SpanFrom(s, i) < k /\ k <= SpanTo(s, i)}

C16_SpansContiguous ==
    \A s \in Sessions :
        /\ \A i \in 1..Len(spans[s]) :
               /\ SpanFrom(s, i) = IF i = 1 THEN 0 ELSE SpanTo(s, i - 1)
               /\ SpanTo(s, i) - SpanFrom(s, i) >= SUMMARY_INTERVAL
               /\ SpanTo(s, i) <= Len(transcript_text[s])
        /\ \A k \in 1..Len(transcript_text[s]) :
               Cardinality(CallsWithLine(s, k)) <= 1
        /\ InLoop(s) =>
               \A k \in 1..Len(transcript_text[s]) :
                   Cardinality(CallsWithLine(s, k)) =
                       IF k <= last_summary_idx[s] THEN 1 ELSE 0
        /\ pcS[s] = "summarizing" =>
               /\ spans[s] # <<>>
               /\ SpanFrom(s, Len(spans[s])) = last_summary_idx[s]
               /\ call[s].clean_text =
                      CleanText(SubSeq(transcript_text[s],
                                       SpanFrom(s, Len(spans[s])) + 1,
                                       SpanTo(s, Len(spans[s]))))

\* C16 witness: two calls have been completed, the second on the lines
\* that follow the first span.
C16_Witness ==
    \E s \in Sessions :
        /\ InLoop(s)
        /\ Len(spans[s]) = 2
        /\ Len(summary_log[s]) = 2
        /\ SpanFrom(s, 2) = SpanTo(s, 1)
        /\ last_summary_idx[s] = SpanTo(s, 2)

\* C17: the batch tool keeps the file's lines that contain "]** " (so every
\* line with a timestamp prefix), cleaned, in file order, and cuts them into
\* consecutive chunks of SUMMARY_INTERVAL lines, the last one possibly
\* shorter; every kept line is in exactly one chunk; a chunk gets one
\* summarization call exactly when its text is not blank, and a failed
\* call leaves the placeholder as that chunk's summary while the loop goes
\* on to the next chunk.
KeptLines == SelectSeq(batch.lines, HasSep)

ChunksWithLine(k) ==
    {j \in 1..Len(batch.chunks) :
         batch.chunks[j].first <= k /\ k <= batch.chunks[j].last}

RECURSIVE ChunkLines(_)
ChunkLines(chunks) ==
    IF chunks = <<>> THEN <<>>
    ELSE Head(chunks).lines \o ChunkLines(Tail(chunks))

Rechunked ==
    batch.pc \in {"chunks", "done"} /\ batch.exists =>
        /\ Len(batch.clean_lines) = Len(KeptLines)
        /\ \A k \in 1..Len(KeptLines) :
               batch.clean_lines[k] = Strip(SplitLast(KeptLines[k], Sep))
        /\ \A j \in 1..Len(batch.chunks) :
               LET c == batch.chunks[j]
               IN  /\ c.first = (j - 1) * SUMMARY_INTERVAL + 1
                   /\ c.lines = [k \in 1..(c.last - c.first + 1) |->
                                     batch.clean_lines[c.first + k - 1]]
                   /\ Len(c.lines) >= 1
                   /\ Len(c.lines) <= SUMMARY_INTERVAL
                   /\ c.last < Len(batch.clean_lines) =>
                          Len(c.lines) = SUMMARY_INTERVAL
                   /\ c.written <=>
                          \E k \in 1..Len(c.lines) : c.lines[k] # <<>>
                   /\ c.written =>
                          /\ c.text_block = Join(c.lines, <<" ">>)
                          /\ c.summary \in
                                 {BatchSummary(resp) : resp \in Responses}
                   /\ ~c.written => c.summary = ""
        /\ \A k \in 1..Len(batch.clean_lines) :
               Cardinality(ChunksWithLine(k)) =
                   IF k <= batch.i \/ batch.pc = "done" THEN 1 ELSE 0
        /\ batch.pc = "done" => ChunkLines(batch.chunks) = batch.clean_lines

BatchStep ==
    Len(batch'.chunks) > Len(batch.chunks) =>
        /\ Len(batch'.chunks) = Len(batch.chunks) + 1
        /\ SubSeq(batch'.chunks, 1, Len(batch.chunks)) = batch.chunks
        /\ batch'.pc = "chunks"
        /\ batch'.i = batch.i + SUMMARY_INTERVAL

C17_BatchRechunks == []Rechunked /\ [][BatchStep]_vars

\* C17 witness: a file of five kept lines was processed to the end in three
\* chunks, the first of which failed and the last of which is short.
C17_Witness ==
    /\ batch.pc = "done"
    /\ Len(batch.clean_lines) = 5
    /\ Len(batch.chunks) = 3
    /\ batch.chunks[1].summary = BatchSummary([raised |-> TRUE, text |-> ""])
    /\ batch.chunks[2].written
    /\ Len(batch.chunks[3].lines) = 1

\* C18: in the interactive front end, the device given to sd.InputStream at
\* a start is the input device the user selected (the default one when the
\* select box was left untouched).
SelectedInput ==
    IF env.choice.made
    THEN InputDevices(env.device_list)[env.choice.pos + 1]
    ELSE ExpectedDefault(env.device_list)

C18_StreamOnSelectedDevice ==
    \A s \in Sessions :
        (frontend = "ui" /\ device[s] # NoDevice) =>
            device[s] = DeviceId(SelectedInput.index)

\* C19: with a single batching loop, the submitted windows in submission
\* order, then the window being accumulated, then the queued buffers, make
\* up exactly the samples the callback enqueued, in enqueue order (nothing
\* twice, nothing skipped); a window holds at least
\* SAMPLE_RATE * CHUNK_DURATION samples and exceeds that by less than one
\* callback buffer.
EnqueuedSamples == [i \in 1..captured |-> i]

PartialWindow ==
    IF \E t \in Sessions : pcT[t] = "collect"
    THEN audio_chunk[CHOOSE t \in Sessions : pcT[t] = "collect"]
    ELSE <<>>

MaxFrames == CHOOSE f \in FrameCounts : \A g \in FrameCounts : f >= g

C19_SamplesConserved ==
    Cardinality(BatchingLoops) <= 1 =>
        /\ Concat(windows) \o PartialWindow \o Concat(audio_q)
               = EnqueuedSamples
        /\ \A i \in 1..Len(windows) :
               /\ Len(windows[i]) >= SAMPLE_RATE * CHUNK_DURATION
               /\ Len(windows[i]) < SAMPLE_RATE * CHUNK_DURATION + MaxFrames

\* C19 witness: a buffer that crossed the window size went whole into the
\* first window, and the second window starts with the sample after it.
C19_Witness ==
    /\ Len(windows) >= 2
    /\ Len(windows[1]) > SAMPLE_RATE * CHUNK_DURATION
    /\ windows[2][1] = Len(windows[1]) + 1

\* C20: in every session the transcript log and the audio buffer have the
\* same length; the i-th audio entry is the submitted window whose
\* transcription produced the i-th line (the line carries the time of that
\* call); lines are in the order their windows were transcribed; and both
\* lists only grow at the end.
LineOfWindow(line, k) ==
    IsPrefix(Formatted(TimeHMS(k), <<>>), line)

\* The submitted window a (line, window) pair belongs to, 0 when none.
WindowOf(line, np_audio) ==
    IF \E k \in 1..Len(windows) :
           windows[k] = np_audio /\ LineOfWindow(line, k)
    THEN CHOOSE k \in 1..Len(windows) :
             windows[k] = np_audio /\ LineOfWindow(line, k)
    ELSE 0

LogMatchesAudio ==
    /\ \A s \in Sessions :
           /\ Len(transcript_text[s]) = Len(audio_buffer[s])
           /\ \A i \in 1..Len(transcript_text[s]) :
                  WindowOf(transcript_text[s][i], audio_buffer[s][i]) # 0
           /\ \A i, j \in 1..Len(transcript_text[s]) :
                  i < j =>
                      WindowOf(transcript_text[s][i], audio_buffer[s][i])
                          < WindowOf(transcript_text[s][j],
                                     audio_buffer[s][j])
           /\ \A i \in 1..Len(transcript_text[s]), j \in 1..Len(result_q) :
                  WindowOf(transcript_text[s][i], audio_buffer[s][i])
                      < WindowOf(result_q[j][1], result_q[j][2])
    /\ \A i \in 1..Len(result_q) :
           WindowOf(result_q[i][1], result_q[i][2]) # 0

AppendOnlyStep ==
    \A s \in Sessions :
        /\ Len(transcript_text'[s]) >= Len(transcript_text[s])
        /\ SubSeq(transcript_text'[s], 1, Len(transcript_text[s]))
               = transcript_text[s]
        /\ Len(audio_buffer'[s]) >= Len(audio_buffer[s])
        /\ SubSeq(audio_buffer'[s], 1, Len(audio_buffer[s]))
               = audio_buffer[s]

C20_LogAndAudioAligned == []LogMatchesAudio /\ [][AppendOnlyStep]_vars

\* C20 witness: the lines of the first and the third window have been
\* drained, the second window having produced no line.
C20_Witness ==
    \E s \in Sessions :
        /\ Len(transcript_text[s]) >= 2
        /\ Len(windows) >= 3
        /\ result_q = <<>>
        /\ audio_buffer[s][1] = windows[1]
        /\ audio_buffer[s][2] = windows[3]

\* C21: under fair scheduling, and with both services returning, the n-th
\* pair put on the results queue is eventually the n-th entry of the
\* transcript log, unless the front end leaves Listening first; so a window
\* whose transcription returned non-empty text is eventually followed by
\* its line in the log.
PairsEnqueued(s) == Len(transcript_text[s]) + Len(result_q)

C21_ResultsEventuallyLogged ==
    \A s \in {1} : \A n \in 1..LiveWindows :
        (recording[s] /\ PairsEnqueued(s) >= n)
            ~> (Len(transcript_text[s]) >= n \/ ~recording[s])

\* C21 witness: still Listening, every pair enqueued so far is in the log,
\* and a summary of the first lines has come back in between.
C21_Witness ==
    /\ recording[1] /\ stream[1] = "open"
    /\ InLoop(1)
    /\ Len(transcript_text[1]) = LiveWindows
    /\ Len(summary_log[1]) = 1
    /\ result_q = <<>>

\* C22: in the interactive front end the recording flag of a session is
\* true exactly when the session holds a started, not yet closed stream,
\* and a session never has more than one such stream; a start is made only
\* by a session that holds none.
FlagMatchesStream ==
    \A s \in Sessions :
        frontend = "ui" =>
            /\ recording[s] <=> open_streams[s] = 1
            /\ recording[s] <=> stream[s] = "open"
            /\ open_streams[s] \in {0, 1}

StartStep ==
    \A s \in Sessions :
        (frontend = "ui" /\ open_streams'[s] > open_streams[s]) =>
            /\ ~recording[s]
            /\ open_streams[s] = 0
            /\ toggles' = toggles + 1

C22_FlagIffOneStream == []FlagMatchesStream /\ [][StartStep]_vars

\* C22 witness: after a first capture was stopped with audio pending, the
\* session records again, on a single stream.
C22_Witness ==
    /\ frontend = "ui"
    /\ toggles = 3
    /\ recording[1]
    /\ open_streams[1] = 1
    /\ stream[1] = "open"
    /\ pending_at_stop # {}

====
